---- MODULE Spec2Model ----
(***************************************************************************)
(* A model of the expense tracker page (src/app/page.tsx): the React state *)
(* of Page (expenses, editingId, form, filters), its event handlers, the   *)
(* mount-time load/save effects and the asynchronous file import.          *)
(*                                                                         *)
(* Strings are sequences of one-character strings, so that trim, slice,    *)
(* toLowerCase, includes, parseFloat and the lexicographic comparison of   *)
(* dates are computed as the code computes them.  Numbers are held in      *)
(* tenths (12.5 is 125); every numeric input of the model has at most one  *)
(* fractional digit.                                                       *)
(***************************************************************************)
EXTENDS Integers, Sequences, FiniteSets

VARIABLES
  expenses,   \* useState<Expense[]>: the record list
  editingId,  \* useState<string | null>
  form,       \* useState: the form's four fields
  filters,    \* useState: the filter criteria
  blob,       \* the persisted value under STORAGE_KEY
  pc,         \* where the mount sequence stands; "ready" once it is over
  queued,     \* the state update scheduled by the load effect
  nextUuid,   \* how many ids crypto.randomUUID has produced
  pending,    \* FileReader reads started and not yet completed
  download,   \* the text of the last exported file
  last        \* the handler that ran last, and the file it completed

vars == <<expenses, editingId, form, filters, blob, pc, queued, nextUuid,
          pending, download, last>>

-----------------------------------------------------------------------------
(* Bounds of the model *)

MaxExpenses == 2   \* Add is not offered beyond this many records
MaxUuid == 3       \* randomUUID is not called beyond this many ids
MaxPending == 2    \* reads in flight at once

-----------------------------------------------------------------------------
(* Characters and strings *)

\* The characters the model uses, in increasing UTF-16 code unit order.
Ascii ==
  <<" ", "-", ".", "0", "1", "2", "3", "4", "5", "6", "7", "8", "9",
    ":", "A", "B", "C", "D", "E", "F", "G", "H", "I", "J", "K", "L",
    "M", "N", "O", "P", "Q", "R", "S", "T", "U", "V", "W", "X", "Y",
    "Z", "a", "b", "c", "d", "e", "f", "g", "h", "i", "j", "k", "l",
    "m", "n", "o", "p", "q", "r", "s", "t", "u", "v", "w", "x", "y",
    "z">>

CodeOf(c) == CHOOSE i \in 1..Len(Ascii) : Ascii[i] = c

Digits == <<"0", "1", "2", "3", "4", "5", "6", "7", "8", "9">>

IsDigit(c) == \E i \in 1..10 : Digits[i] = c

DigitVal(c) == (CHOOSE i \in 1..10 : Digits[i] = c) - 1

UpperCase ==
  <<"A", "B", "C", "D", "E", "F", "G", "H", "I", "J", "K", "L", "M",
    "N", "O", "P", "Q", "R", "S", "T", "U", "V", "W", "X", "Y", "Z">>

LowerCase ==
  <<"a", "b", "c", "d", "e", "f", "g", "h", "i", "j", "k", "l", "m",
    "n", "o", "p", "q", "r", "s", "t", "u", "v", "w", "x", "y", "z">>

\* String.prototype.toLowerCase, one character
LowerChar(c) ==
  IF \E i \in 1..Len(UpperCase) : UpperCase[i] = c
  THEN LowerCase[CHOOSE i \in 1..Len(UpperCase) : UpperCase[i] = c]
  ELSE c

toLowerCase(s) == [i \in 1..Len(s) |-> LowerChar(s[i])]

\* String.prototype.includes
includes(s, q) ==
  \E i \in 0..(Len(s) - Len(q)) : SubSeq(s, i + 1, i + Len(q)) = q

\* String.prototype.slice(0, n)
slice0(s, n) == SubSeq(s, 1, IF Len(s) < n THEN Len(s) ELSE n)

\* String.prototype.trim
RECURSIVE trimStart(_)
trimStart(s) ==
  IF s # <<>> /\ Head(s) = " " THEN trimStart(Tail(s)) ELSE s

RECURSIVE trimEnd(_)
trimEnd(s) ==
  IF s # <<>> /\ s[Len(s)] = " " THEN trimEnd(SubSeq(s, 1, Len(s) - 1)) ELSE s

trim(s) == trimEnd(trimStart(s))

\* a < b on strings: lexicographic comparison by code unit
RECURSIVE StrLess(_, _)
StrLess(a, b) ==
  IF b = <<>> THEN FALSE
  ELSE IF a = <<>> THEN TRUE
  ELSE IF Head(a) # Head(b) THEN CodeOf(Head(a)) < CodeOf(Head(b))
  ELSE StrLess(Tail(a), Tail(b))

StrLeq(a, b) == a = b \/ StrLess(a, b)

-----------------------------------------------------------------------------
(* JavaScript values: t is the type tag, s the characters of a string,     *)
(* n the tenths of a finite number.                                        *)

Str(s) == [t |-> "str", s |-> s, n |-> 0]
Num(n) == [t |-> "num", s |-> <<>>, n |-> n]
Infinity == [t |-> "inf", s |-> <<>>, n |-> 0]
NegInfinity == [t |-> "ninf", s |-> <<>>, n |-> 0]
NaN == [t |-> "nan", s |-> <<>>, n |-> 0]
Undefined == [t |-> "undef", s |-> <<>>, n |-> 0]
JsNull == [t |-> "null", s |-> <<>>, n |-> 0]

\* typeof v === "number"
IsNumber(v) == v.t \in {"num", "inf", "ninf", "nan"}

\* typeof v === "string"
IsString(v) == v.t = "str"

\* the truthiness that || and ?: test
Truthy(v) ==
  CASE v.t = "str" -> v.s # <<>>
    [] v.t = "num" -> v.n # 0
    [] v.t \in {"inf", "ninf"} -> TRUE
    [] OTHER -> FALSE

\* isFinite(v) of a number
isFinite(v) == v.t = "num"

\* v <= 0 of a number (false for NaN)
LeqZero(v) == (v.t = "num" /\ v.n <= 0) \/ v.t = "ninf"

RECURSIVE NatToStr(_)
NatToStr(k) ==
  IF k < 10 THEN <<Digits[k + 1]>>
  ELSE NatToStr(k \div 10) \o <<Digits[(k % 10) + 1]>>

\* Number.prototype.toString of a finite number held in tenths
FiniteToStr(n) ==
  LET a == IF n < 0 THEN -n ELSE n
      body == NatToStr(a \div 10) \o
              (IF a % 10 = 0 THEN <<>> ELSE <<".", Digits[(a % 10) + 1]>>)
  IN IF n < 0 THEN <<"-">> \o body ELSE body

\* String(v)
ToStr(v) ==
  CASE v.t = "str" -> v.s
    [] v.t = "num" -> FiniteToStr(v.n)
    [] v.t = "inf" -> <<"I", "n", "f", "i", "n", "i", "t", "y">>
    [] v.t = "ninf" -> <<"-", "I", "n", "f", "i", "n", "i", "t", "y">>
    [] v.t = "nan" -> <<"N", "a", "N">>
    [] v.t = "null" -> <<"n", "u", "l", "l">>
    [] OTHER -> <<"u", "n", "d", "e", "f", "i", "n", "e", "d">>

-----------------------------------------------------------------------------
(* Numeric literals: parseFloat and the number grammar of JSON.parse       *)

RECURSIVE LeadingDigits(_)
LeadingDigits(s) ==
  IF s # <<>> /\ IsDigit(Head(s)) THEN 1 + LeadingDigits(Tail(s)) ELSE 0

RECURSIVE DigitsValue(_)
DigitsValue(s) ==
  IF s = <<>> THEN 0
  ELSE DigitsValue(SubSeq(s, 1, Len(s) - 1)) * 10 + DigitVal(s[Len(s)])

RECURSIVE Pow10(_)
Pow10(k) == IF k = 0 THEN 1 ELSE 10 * Pow10(k - 1)

\* u has a "." right after its first il characters
HasDot(u, il) == Len(u) > il /\ u[il + 1] = "."

\* the fraction digits after that "."
FracLen(u, il) ==
  IF HasDot(u, il) THEN LeadingDigits(SubSeq(u, il + 2, Len(u))) ELSE 0

\* the length of the mantissa: digits, then "." and digits; 0 when there
\* is no digit at all
MantLen(u, il, fl) ==
  IF il = 0 /\ fl = 0 THEN 0
  ELSE il + (IF HasDot(u, il) THEN 1 + fl ELSE 0)

\* the mantissa in tenths: the integer digits and the first fraction digit
MantTenths(u, il, fl) ==
  DigitsValue(SubSeq(u, 1, il)) * 10 + (IF fl > 0 THEN DigitVal(u[il + 2]) ELSE 0)

\* the exponent part of rest, the text after the mantissa: e or E, an
\* optional sign, digits; [len, exp], len = 0 when there is none
ScanExponent(rest) ==
  IF rest = <<>> \/ Head(rest) \notin {"e", "E"} THEN [len |-> 0, exp |-> 0]
  ELSE IF Len(rest) >= 2 /\ rest[2] \in {"-", "+"}
  THEN (IF LeadingDigits(SubSeq(rest, 3, Len(rest))) = 0
        THEN [len |-> 0, exp |-> 0]
        ELSE [len |-> 2 + LeadingDigits(SubSeq(rest, 3, Len(rest))),
              exp |-> (IF rest[2] = "-" THEN -1 ELSE 1)
                      * DigitsValue(SubSeq(rest, 3,
                          2 + LeadingDigits(SubSeq(rest, 3, Len(rest)))))])
  ELSE (IF LeadingDigits(Tail(rest)) = 0
        THEN [len |-> 0, exp |-> 0]
        ELSE [len |-> 1 + LeadingDigits(Tail(rest)),
              exp |-> DigitsValue(SubSeq(rest, 2, 1 + LeadingDigits(Tail(rest))))])

\* the literal whose mantissa is the first ml characters of u
ScanMantissa(u, ml, tenths) ==
  IF ml = 0 THEN [len |-> 0, tenths |-> 0, exp |-> 0]
  ELSE [len |-> ml + ScanExponent(SubSeq(u, ml + 1, Len(u))).len,
        tenths |-> tenths,
        exp |-> ScanExponent(SubSeq(u, ml + 1, Len(u))).exp]

\* The longest prefix of u that is an unsigned decimal literal
\* (digits, an optional fraction, an optional exponent), as
\* [len, tenths, exp]: len = 0 when u starts with no literal.
ScanDecimal(u) ==
  ScanMantissa(u,
               MantLen(u, LeadingDigits(u), FracLen(u, LeadingDigits(u))),
               MantTenths(u, LeadingDigits(u), FracLen(u, LeadingDigits(u))))

\* The number a scanned literal denotes; beyond the range of a double it is
\* Infinity (the largest double is below 10^309).
ScannedValue(sc, neg) ==
  IF sc.tenths # 0 /\ sc.exp > 308
  THEN (IF neg THEN NegInfinity ELSE Infinity)
  ELSE Num((IF neg THEN -1 ELSE 1)
           * (IF sc.exp >= 0 THEN sc.tenths * Pow10(sc.exp)
              ELSE sc.tenths \div Pow10(-sc.exp)))

InfinityLit == <<"I", "n", "f", "i", "n", "i", "t", "y">>

\* after the sign: "Infinity", or the longest decimal literal; NaN when
\* there is none
ParseUnsigned(u, neg) ==
  IF slice0(u, 8) = InfinityLit
  THEN (IF neg THEN NegInfinity ELSE Infinity)
  ELSE IF ScanDecimal(u).len = 0 THEN NaN
  ELSE ScannedValue(ScanDecimal(u), neg)

\* an optional sign, then the unsigned text
ParseSigned(t) ==
  IF t # <<>> /\ Head(t) \in {"-", "+"}
  THEN ParseUnsigned(Tail(t), Head(t) = "-")
  ELSE ParseUnsigned(t, FALSE)

\* parseFloat(s): leading white space skipped, an optional sign, then
\* "Infinity" or the longest decimal literal
parseFloat(s) == ParseSigned(trimStart(s))

\* A JSON number token: an optional minus and a decimal literal that is
\* the whole token.
ParseJsonNumber(lit) ==
  IF lit # <<>> /\ Head(lit) = "-"
  THEN ScannedValue(ScanDecimal(Tail(lit)), TRUE)
  ELSE ScannedValue(ScanDecimal(lit), FALSE)

-----------------------------------------------------------------------------
(* The Expense type and the JSON documents that hold it.                   *)
(*                                                                         *)
(* A JSON text is held as its tokens: k is "garbage" for a text that is    *)
(* not JSON, "object" for a top-level value that is not an array, "array"  *)
(* for an array, whose items are the entries.  An entry is an object       *)
(* (k = "obj") with the five keys of Expense, each a JSON token or absent, *)
(* or a value that is no object (k = "null").  A number token keeps its    *)
(* literal text.                                                           *)

JAbsent == [k |-> "absent", lit |-> <<>>]
JNull == [k |-> "null", lit |-> <<>>]
JNum(lit) == [k |-> "num", lit |-> lit]
JStr(s) == [k |-> "str", lit |-> s]

JObj(id, amount, category, note, date) ==
  [k |-> "obj", id |-> id, amount |-> amount, category |-> category,
   note |-> note, date |-> date]

JNullEntry ==
  [k |-> "null", id |-> JAbsent, amount |-> JAbsent, category |-> JAbsent,
   note |-> JAbsent, date |-> JAbsent]

JArray(items) == [k |-> "array", items |-> items]
JGarbage == [k |-> "garbage", items |-> <<>>]
JObject == [k |-> "object", items |-> <<>>]
NoFile == [k |-> "none", items |-> <<>>]

Expense(id, amount, category, note, date) ==
  [id |-> id, amount |-> amount, category |-> category, note |-> note,
   date |-> date]

\* JSON.parse of one token
FromJson(j) ==
  CASE j.k = "str" -> Str(j.lit)
    [] j.k = "num" -> ParseJsonNumber(j.lit)
    [] j.k = "null" -> JsNull
    [] OTHER -> Undefined

\* JSON.stringify of one value: a number that is not finite becomes null,
\* an undefined property is left out
ToJson(v) ==
  CASE v.t = "str" -> JStr(v.s)
    [] v.t = "num" -> JNum(FiniteToStr(v.n))
    [] v.t \in {"inf", "ninf", "nan", "null"} -> JNull
    [] OTHER -> JAbsent

\* JSON.parse(text): whether it throws, whether the value is an array, and
\* the parsed items; isObj tells an item that is an object from null.
JSONparse(text) ==
  [threw |-> text.k = "garbage",
   isArray |-> text.k = "array",
   items |-> [i \in 1..Len(text.items) |->
               [isObj |-> text.items[i].k = "obj",
                id |-> FromJson(text.items[i].id),
                amount |-> FromJson(text.items[i].amount),
                category |-> FromJson(text.items[i].category),
                note |-> FromJson(text.items[i].note),
                date |-> FromJson(text.items[i].date)]]]

\* JSON.stringify(expenses, null, 2)
JSONstringify(list) ==
  JArray([i \in 1..Len(list) |->
           JObj(ToJson(list[i].id), ToJson(list[i].amount),
                ToJson(list[i].category), ToJson(list[i].note),
                ToJson(list[i].date))])

\* crypto.randomUUID(): the k-th id it produces
randomUUID(k) == Str(<<"u">> \o NatToStr(k))

-----------------------------------------------------------------------------
(* String constants of the program and of its environment                  *)

General == <<"G", "e", "n", "e", "r", "a", "l">>
Food == <<"F", "o", "o", "d">>

\* const categories (lines 16-27)
categories ==
  <<General,
    Food,
    <<"T", "r", "a", "n", "s", "p", "o", "r", "t">>,
    <<"H", "o", "u", "s", "i", "n", "g">>,
    <<"U", "t", "i", "l", "i", "t", "i", "e", "s">>,
    <<"H", "e", "a", "l", "t", "h">>,
    <<"E", "n", "t", "e", "r", "t", "a", "i", "n", "m", "e", "n", "t">>,
    <<"S", "h", "o", "p", "p", "i", "n", "g">>,
    <<"T", "r", "a", "v", "e", "l">>,
    <<"O", "t", "h", "e", "r">>>>

\* The clock: new Date() falls on Today, in the month FirstOfMonth..LastOfMonth.
Today == <<"2", "0", "2", "4", "-", "0", "1", "-", "1", "5">>
FirstOfMonth == <<"2", "0", "2", "4", "-", "0", "1", "-", "0", "1">>
LastOfMonth == <<"2", "0", "2", "4", "-", "0", "1", "-", "3", "1">>

startOfMonthISO == FirstOfMonth
endOfMonthISO == LastOfMonth

DefaultForm ==
  [amount |-> Str(<<>>), category |-> Str(General), note |-> Str(<<>>),
   date |-> Str(Today)]

DefaultFilters ==
  [from |-> startOfMonthISO, to |-> endOfMonthISO, q |-> <<>>, category |-> <<>>]

-----------------------------------------------------------------------------
(* Storage (lib/storage): get/set of one JSON value under STORAGE_KEY      *)

BlobAbsent == [k |-> "absent", items |-> <<>>]

\* loadFromStorage(key, fallback): the parsed list, or the fallback when
\* the key is absent or its value cannot be read as a list
loadFromStorage(b, fallback) ==
  IF b.k # "array" THEN fallback
  ELSE LET p == JSONparse(b)
       IN [i \in 1..Len(p.items) |->
            Expense(p.items[i].id, p.items[i].amount, p.items[i].category,
                    p.items[i].note, p.items[i].date)]

\* saveToStorage(key, value): the value written
saveToStorage(list) == JSONstringify(list)

-----------------------------------------------------------------------------
(* The filtered view (useMemo, lines 68-75)                                *)

\* the .filter callbacks with > for >= in the third: the lower bound of the
\* dates is exclusive
FilterKeepsAfterFrom(e, f) ==
  /\ (IF f.category = <<>> THEN TRUE ELSE e.category = Str(f.category))
  /\ (IF f.q = <<>> THEN TRUE
      ELSE includes(toLowerCase(ToStr(e.note) \o <<" ">> \o ToStr(e.category)),
                    toLowerCase(f.q)))
  /\ (IF f.from # <<>> THEN StrLess(f.from, ToStr(e.date)) ELSE TRUE)
  /\ (IF f.to # <<>> THEN StrLeq(ToStr(e.date), f.to) ELSE TRUE)

\* the four .filter callbacks
FilterKeeps(e, f) ==
  /\ (IF f.category = <<>> THEN TRUE ELSE e.category = Str(f.category))
  /\ (IF f.q = <<>> THEN TRUE
      ELSE includes(toLowerCase(ToStr(e.note) \o <<" ">> \o ToStr(e.category)),
                    toLowerCase(f.q)))
  /\ (IF f.from # <<>> THEN StrLeq(f.from, ToStr(e.date)) ELSE TRUE)
  /\ (IF f.to # <<>> THEN StrLeq(ToStr(e.date), f.to) ELSE TRUE)

RECURSIVE FilterRows(_, _)
FilterRows(list, f) ==
  IF list = <<>> THEN <<>>
  ELSE (IF FilterKeeps(Head(list), f) THEN <<Head(list)>> ELSE <<>>)
       \o FilterRows(Tail(list), f)

Rearrangements(n) ==
  {p \in [1..n -> 1..n] : \A i, j \in 1..n : i # j => p[i] # p[j]}

\* .sort((a, b) => (a.date < b.date ? 1 : -1)): a rearrangement of the rows
\* with no earlier date before a later one.  The comparator never answers 0,
\* so the order of rows of one date is the engine's choice: every such
\* order is an outcome.
SortOutcomes(rows) ==
  {[i \in 1..Len(rows) |-> rows[p[i]]] : p \in
     {q \in Rearrangements(Len(rows)) :
        \A i, j \in 1..Len(rows) :
          i < j => ~StrLess(ToStr(rows[q[i]].date), ToStr(rows[q[j]].date))}}

filtered(list, f) == SortOutcomes(FilterRows(list, f))

\* the ids of the rows the list renders: the Edit and Delete buttons
RenderedIds(list, f) ==
  LET rows == FilterRows(list, f) IN {rows[i].id : i \in 1..Len(rows)}

-----------------------------------------------------------------------------
(* handleSubmit (lines 91-107) and resetForm (lines 86-89)                 *)

\* v === null || v === undefined, what ?? tests
Nullish(v) == v.t \in {"null", "undef"}

\* line 94 with < for <=: a zero amount is let through
SubmitRejectsBelowZero(amount) ==
  ~isFinite(amount) \/ (amount.t = "num" /\ amount.n < 0) \/ amount.t = "ninf"

\* line 94: if (!isFinite(amount) || amount <= 0) return;
SubmitRejects(amount) == ~isFinite(amount) \/ LeqZero(amount)

\* lines 95-101: the payload, with k ids produced so far
SubmitPayload(eid, f, k) ==
  Expense(IF Nullish(eid) THEN randomUUID(k + 1) ELSE eid,
          parseFloat(ToStr(f.amount)),
          f.category,
          Str(trim(ToStr(f.note))),
          f.date)

\* line 103: the updater given to setExpenses
SubmitNext(prev, eid, payload) ==
  IF Truthy(eid)
  THEN [i \in 1..Len(prev) |-> IF prev[i].id = eid THEN payload ELSE prev[i]]
  ELSE <<payload>> \o prev

-----------------------------------------------------------------------------
(* handleImport (lines 131-150): the body of reader.onload                 *)

\* line 138: e && typeof e.amount === "number" && typeof e.date === "string"
ImportKeeps(e) == e.isObj /\ IsNumber(e.amount) /\ IsString(e.date)

\* lines 137-145: filter, then map; k ids were produced before
RECURSIVE cleaned(_, _)
cleaned(items, k) ==
  IF items = <<>> THEN <<>>
  ELSE LET e == Head(items)
           fresh == ImportKeeps(e) /\ ~Truthy(e.id)
       IN (IF ImportKeeps(e)
           THEN <<Expense(IF Truthy(e.id) THEN e.id ELSE randomUUID(k + 1),
                          e.amount,
                          IF Truthy(e.category) THEN e.category ELSE Str(General),
                          IF Truthy(e.note) THEN e.note ELSE Str(<<>>),
                          Str(slice0(e.date.s, 10)))>>
           ELSE <<>>)
          \o cleaned(Tail(items), IF fresh THEN k + 1 ELSE k)

\* how many ids the map asks randomUUID for
RECURSIVE UuidsNeeded(_)
UuidsNeeded(items) ==
  IF items = <<>> THEN 0
  ELSE (IF ImportKeeps(Head(items)) /\ ~Truthy(Head(items).id) THEN 1 ELSE 0)
       + UuidsNeeded(Tail(items))

\* onload without the try: the SyntaxError of JSON.parse leaves the handler
OnLoadNoTry(text, prev, k) ==
  LET p == JSONparse(text)
  IN IF p.threw
     THEN [list |-> prev, uuid |-> k, set |-> FALSE, err |-> TRUE]
     ELSE IF ~p.isArray
     THEN [list |-> prev, uuid |-> k, set |-> FALSE, err |-> FALSE]
     ELSE [list |-> cleaned(p.items, k), uuid |-> k + UuidsNeeded(p.items),
           set |-> TRUE, err |-> FALSE]

\* onload that merges: setExpenses((prev) => [...cleaned, ...prev])
OnLoadMerge(text, prev, k) ==
  LET p == JSONparse(text)
  IN IF p.threw \/ ~p.isArray
     THEN [list |-> prev, uuid |-> k, set |-> FALSE, err |-> FALSE]
     ELSE [list |-> cleaned(p.items, k) \o prev, uuid |-> k + UuidsNeeded(p.items),
           set |-> TRUE, err |-> FALSE]

\* lines 133-148: what onload leaves: the list, the ids produced, whether
\* setExpenses was called, and whether an exception left the handler
OnLoad(text, prev, k) ==
  LET p == JSONparse(text)
  IN IF p.threw
     THEN [list |-> prev, uuid |-> k, set |-> FALSE, err |-> FALSE]
     ELSE IF ~p.isArray
     THEN [list |-> prev, uuid |-> k, set |-> FALSE, err |-> FALSE]
     ELSE [list |-> cleaned(p.items, k), uuid |-> k + UuidsNeeded(p.items),
           set |-> TRUE, err |-> FALSE]

\* line 122: the text handleExport puts in the file
ExportText(list) == JSONstringify(list)

-----------------------------------------------------------------------------
(* Inputs *)

AmountInputs ==
  {<<>>, <<"0">>, <<"-", "5">>, <<"1", "2", ".", "5">>, <<"x">>}

CategoryInputs == {categories[1], categories[2]}

NoteInputs == {<<>>, <<" ", "a", " ">>}

\* a record a previous session persisted
StoredRecord ==
  Expense(Str(<<"s">>), Num(20), Str(Food), Str(<<"b">>),
          Str(<<"2", "0", "2", "4", "-", "0", "1", "-", "0", "2">>))

InitBlobs == {BlobAbsent, JGarbage, JSONstringify(<<StoredRecord>>)}

\* '{"a":1}'
FileObject == JObject

\* not JSON
FileGarbage == JGarbage

\* two entries with one id; the second has no category, no note and a
\* date with a time of day
FileDup ==
  JArray(<<JObj(JStr(<<"a">>), JNum(<<"3">>), JStr(Food), JStr(<<"b">>),
                JStr(<<"2", "0", "2", "4", "-", "0", "1", "-", "0", "5">>)),
           JObj(JStr(<<"a">>), JNum(<<"4">>), JAbsent, JAbsent,
                JStr(<<"2", "0", "2", "4", "-", "0", "1", "-", "0", "6",
                       "T", "1", "0", ":", "0", "0", ":", "0", "0", "Z">>))>>)

\* null, an entry whose amount is a string, and an entry without id
\* whose amount is negative
FileMixed ==
  JArray(<<JNullEntry,
           JObj(JStr(<<"c">>), JStr(<<"x">>), JAbsent, JAbsent,
                JStr(<<"2", "0", "2", "4", "-", "0", "1", "-", "0", "1">>)),
           JObj(JAbsent, JNum(<<"-", "5">>), JStr(Food), JStr(<<>>),
                JStr(<<"2", "0", "2", "4", "-", "0", "1", "-", "0", "7">>))>>)

\* an entry whose amount is 1e999
FileHuge ==
  JArray(<<JObj(JStr(<<"h">>), JNum(<<"1", "e", "9", "9", "9">>), JStr(Food),
                JStr(<<>>),
                JStr(<<"2", "0", "2", "4", "-", "0", "1", "-", "0", "8">>))>>)

Files == {FileObject, FileGarbage, FileDup, FileMixed}

-----------------------------------------------------------------------------
(* The state machine *)

Done(op) == [op |-> op, file |-> NoFile, err |-> FALSE]

\* The state after the first render, before its effects have run, with b
\* the value persisted under STORAGE_KEY.
InitWith(b) ==
  /\ expenses = <<>>
  /\ editingId = JsNull
  /\ form = DefaultForm
  /\ filters = DefaultFilters
  /\ blob = b
  /\ pc = "effects"
  /\ queued = <<>>
  /\ nextUuid = 0
  /\ pending = {}
  /\ download = NoFile
  /\ last = Done("init")

\* lines 60-62, on mount: setExpenses(loadFromStorage(...)) schedules the update
MountLoad ==
  /\ pc = "effects"
  /\ queued' = loadFromStorage(blob, <<>>)
  /\ pc' = "save"
  /\ last' = Done("mountLoad")
  /\ UNCHANGED <<expenses, editingId, form, filters, blob, nextUuid, pending, download>>

\* lines 64-66, on mount: the save effect of the first render, whose
\* expenses is the initial []
MountSave ==
  /\ pc = "save"
  /\ blob' = saveToStorage(expenses)
  /\ pc' = "commit"
  /\ last' = Done("mountSave")
  /\ UNCHANGED <<expenses, editingId, form, filters, queued, nextUuid, pending, download>>

\* the render the scheduled update causes, and the save effect after it
MountCommit ==
  /\ pc = "commit"
  /\ expenses' = queued
  /\ blob' = saveToStorage(queued)
  /\ pc' = "ready"
  /\ last' = Done("mountCommit")
  /\ UNCHANGED <<editingId, form, filters, queued, nextUuid, pending, download>>

\* line 163
SetAmount(v) ==
  /\ pc = "ready"
  /\ form' = [form EXCEPT !.amount = Str(v)]
  /\ last' = Done("setForm")
  /\ UNCHANGED <<expenses, editingId, filters, blob, pc, queued, nextUuid, pending, download>>

\* line 166
SetCategory(v) ==
  /\ pc = "ready"
  /\ form' = [form EXCEPT !.category = Str(v)]
  /\ last' = Done("setForm")
  /\ UNCHANGED <<expenses, editingId, filters, blob, pc, queued, nextUuid, pending, download>>

\* line 176
SetNote(v) ==
  /\ pc = "ready"
  /\ form' = [form EXCEPT !.note = Str(v)]
  /\ last' = Done("setForm")
  /\ UNCHANGED <<expenses, editingId, filters, blob, pc, queued, nextUuid, pending, download>>

\* handleSubmit, line 94: the early return
SubmitRejected ==
  /\ pc = "ready"
  /\ SubmitRejects(parseFloat(ToStr(form.amount)))
  /\ last' = Done("submitRejected")
  /\ UNCHANGED <<expenses, editingId, form, filters, blob, pc, queued, nextUuid, pending, download>>

\* handleSubmit, lines 95-106, and the save effect
SubmitAccepted ==
  /\ pc = "ready"
  /\ ~SubmitRejects(parseFloat(ToStr(form.amount)))
  /\ Nullish(editingId) => nextUuid < MaxUuid
  /\ ~Truthy(editingId) => Len(expenses) < MaxExpenses
  /\ expenses' = SubmitNext(expenses, editingId, SubmitPayload(editingId, form, nextUuid))
  /\ nextUuid' = IF Nullish(editingId) THEN nextUuid + 1 ELSE nextUuid
  /\ form' = DefaultForm
  /\ editingId' = JsNull
  /\ blob' = saveToStorage(expenses')
  /\ last' = Done(IF Truthy(editingId) THEN "submitEdit" ELSE "submitAdd")
  /\ UNCHANGED <<filters, pc, queued, pending, download>>

\* handleEdit (lines 109-114), from the Edit button of a rendered row
Edit(id) ==
  /\ pc = "ready"
  /\ id \in RenderedIds(expenses, filters)
  /\ LET e == expenses[CHOOSE i \in 1..Len(expenses) :
                         /\ expenses[i].id = id
                         /\ \A j \in 1..(i - 1) : expenses[j].id # id]
     IN form' = [amount |-> Str(ToStr(e.amount)), category |-> e.category,
                 note |-> e.note, date |-> e.date]
  /\ editingId' = id
  /\ last' = Done("edit")
  /\ UNCHANGED <<expenses, filters, blob, pc, queued, nextUuid, pending, download>>

\* handleDelete (lines 116-119), from the Delete button of a rendered row
Delete(id) ==
  /\ pc = "ready"
  /\ id \in RenderedIds(expenses, filters)
  /\ expenses' = SelectSeq(expenses, LAMBDA x : x.id # id)
  /\ IF editingId = id
     THEN form' = DefaultForm /\ editingId' = JsNull
     ELSE UNCHANGED <<form, editingId>>
  /\ blob' = saveToStorage(expenses')
  /\ last' = Done("delete")
  /\ UNCHANGED <<filters, pc, queued, nextUuid, pending, download>>

\* the Cancel button (line 181), rendered in Edit mode: resetForm
Cancel ==
  /\ pc = "ready"
  /\ Truthy(editingId)
  /\ form' = DefaultForm
  /\ editingId' = JsNull
  /\ last' = Done("cancel")
  /\ UNCHANGED <<expenses, filters, blob, pc, queued, nextUuid, pending, download>>

\* handleExport (lines 121-129)
Export ==
  /\ pc = "ready"
  /\ download' = ExportText(expenses)
  /\ last' = Done("export")
  /\ UNCHANGED <<expenses, editingId, form, filters, blob, pc, queued, nextUuid, pending>>

\* handleImport (lines 131-132, 149): the read of the chosen file starts
ImportStart(file) ==
  /\ pc = "ready"
  /\ file.k # "none"
  /\ file \notin pending
  /\ Cardinality(pending) < MaxPending
  /\ pending' = pending \cup {file}
  /\ last' = Done("importStart")
  /\ UNCHANGED <<expenses, editingId, form, filters, blob, pc, queued, nextUuid, download>>

\* reader.onload (lines 133-148) of one of the reads in flight, and the
\* save effect when setExpenses was called
ImportDone(file) ==
  /\ pc = "ready"
  /\ file \in pending
  /\ LET r == OnLoad(file, expenses, nextUuid)
     IN /\ r.uuid <= MaxUuid
        /\ expenses' = r.list
        /\ nextUuid' = r.uuid
        /\ blob' = IF r.set THEN saveToStorage(r.list) ELSE blob
        /\ last' = [op |-> "importDone", file |-> file, err |-> r.err]
  /\ pending' = pending \ {file}
  /\ UNCHANGED <<editingId, form, filters, pc, queued, download>>

\* lines 195, 198, 206, 207: the four filter inputs
SetFilterQ(v) ==
  /\ pc = "ready"
  /\ filters' = [filters EXCEPT !.q = v]
  /\ last' = Done("setFilters")
  /\ UNCHANGED <<expenses, editingId, form, blob, pc, queued, nextUuid, pending, download>>

SetFilterCategory(v) ==
  /\ pc = "ready"
  /\ filters' = [filters EXCEPT !.category = v]
  /\ last' = Done("setFilters")
  /\ UNCHANGED <<expenses, editingId, form, blob, pc, queued, nextUuid, pending, download>>

SetFilterFrom(v) ==
  /\ pc = "ready"
  /\ filters' = [filters EXCEPT !.from = v]
  /\ last' = Done("setFilters")
  /\ UNCHANGED <<expenses, editingId, form, blob, pc, queued, nextUuid, pending, download>>

SetFilterTo(v) ==
  /\ pc = "ready"
  /\ filters' = [filters EXCEPT !.to = v]
  /\ last' = Done("setFilters")
  /\ UNCHANGED <<expenses, editingId, form, blob, pc, queued, nextUuid, pending, download>>

\* line 213: the Reset button
ResetFilters ==
  /\ pc = "ready"
  /\ filters' = DefaultFilters
  /\ last' = Done("resetFilters")
  /\ UNCHANGED <<expenses, editingId, form, blob, pc, queued, nextUuid, pending, download>>

Mount == MountLoad \/ MountSave \/ MountCommit

(* The store and the import: a first visit (nothing persisted), one valid  *)
(* amount typed in the form, every file of Files.                          *)
Init == InitWith(BlobAbsent)

Next ==
  \/ Mount
  \/ SetAmount(<<"1", "2", ".", "5">>)
  \/ SubmitRejected
  \/ SubmitAccepted
  \/ \E i \in 1..Len(expenses) : Edit(expenses[i].id)
  \/ \E i \in 1..Len(expenses) : Delete(expenses[i].id)
  \/ Cancel
  \/ \E f \in Files : ImportStart(f)
  \/ \E f \in pending : ImportDone(f)

Spec == Init /\ [][Next]_vars

(* The form: every amount, category and note of the inputs.                *)
NextForm ==
  \/ Mount
  \/ \E v \in AmountInputs : SetAmount(v)
  \/ \E v \in CategoryInputs : SetCategory(v)
  \/ \E v \in NoteInputs : SetNote(v)
  \/ SubmitRejected
  \/ SubmitAccepted
  \/ \E i \in 1..Len(expenses) : Edit(expenses[i].id)
  \/ \E i \in 1..Len(expenses) : Delete(expenses[i].id)
  \/ Cancel

SpecForm == Init /\ [][NextForm]_vars

(* Export and import: the exported file, and a file with an amount beyond  *)
(* the range of a double, can be imported.                                 *)
NextRoundTrip ==
  \/ Mount
  \/ SetAmount(<<"1", "2", ".", "5">>)
  \/ SubmitRejected
  \/ SubmitAccepted
  \/ \E i \in 1..Len(expenses) : Delete(expenses[i].id)
  \/ Export
  \/ \E f \in {FileHuge, download} : ImportStart(f)
  \/ \E f \in pending : ImportDone(f)

SpecRoundTrip == Init /\ [][NextRoundTrip]_vars

(* The mount sequence over every persisted value of InitBlobs.             *)
InitMount == \E b \in InitBlobs : InitWith(b)

NextMount ==
  \/ Mount
  \/ \E v \in AmountInputs : SetAmount(v)
  \/ SubmitRejected
  \/ SubmitAccepted
  \/ \E i \in 1..Len(expenses) : Edit(expenses[i].id)
  \/ \E i \in 1..Len(expenses) : Delete(expenses[i].id)
  \/ Cancel

SpecMount == InitMount /\ [][NextMount]_vars

(* The filtered view: the page holds a list of sample records, the user    *)
(* changes the criteria.                                                   *)
SampleRecords ==
  {Expense(Str(<<"p">>), Num(100), Str(Food), Str(<<"a">>),
           Str(<<"2", "0", "2", "4", "-", "0", "1", "-", "0", "5">>)),
   Expense(Str(<<"q">>), Num(50), Str(General), Str(<<>>),
           Str(LastOfMonth)),
   Expense(Str(<<"r">>), Num(70), Str(Food), Str(<<"B", " ", "a">>),
           Str(<<"2", "0", "2", "3", "-", "1", "2", "-", "3", "1">>))}

SampleLists ==
  UNION {{l \in [1..n -> SampleRecords] : \A i, j \in 1..n : i # j => l[i] # l[j]} :
           n \in 0..MaxExpenses}

QInputs == {<<>>, <<"a", " ", "F">>, <<"a", "f">>, <<"f", "o", "o">>}

FilterCategoryInputs == {<<>>, Food}

FromInputs == {<<>>, FirstOfMonth, <<"2", "0", "2", "4", "-", "0", "1", "-", "0", "5">>}

ToInputs == {<<>>, LastOfMonth, <<"2", "0", "2", "4", "-", "0", "1", "-", "0", "5">>}

InitFilter ==
  /\ expenses \in SampleLists
  /\ editingId = JsNull
  /\ form = DefaultForm
  /\ filters = DefaultFilters
  /\ blob = saveToStorage(expenses)
  /\ pc = "ready"
  /\ queued = expenses
  /\ nextUuid = 0
  /\ pending = {}
  /\ download = NoFile
  /\ last = Done("mountCommit")

NextFilter ==
  \/ \E v \in QInputs : SetFilterQ(v)
  \/ \E v \in FilterCategoryInputs : SetFilterCategory(v)
  \/ \E v \in FromInputs : SetFilterFrom(v)
  \/ \E v \in ToInputs : SetFilterTo(v)
  \/ ResetFilters

SpecFilter == InitFilter /\ [][NextFilter]_vars

-----------------------------------------------------------------------------
(* Properties *)

HasId(list, id) == \E i \in 1..Len(list) : list[i].id = id

\* C1: no two records of the record list have the same id.
IdsUnique ==
  \A i, j \in 1..Len(expenses) : i # j => expenses[i].id # expenses[j].id

\* C2: every record of the record list has an amount that is a finite
\* number strictly greater than 0.
AmountsPositive ==
  \A i \in 1..Len(expenses) :
    expenses[i].amount.t = "num" /\ expenses[i].amount.n > 0

\* C3: when the text of a completed import is not JSON, or is JSON whose
\* top-level value is not an array, the record list after the completion is
\* the list before it, and no exception leaves the handler.
ImportFailureKeepsStore ==
  [][(last'.op = "importDone" /\ last'.file.k \in {"garbage", "object"})
       => (expenses' = expenses /\ ~last'.err)]_vars

\* C3: an import of a text that is not JSON has completed on a store that
\* holds records, and another text whose top-level value is no array is
\* still being read.
ImportFailureSeen ==
  /\ last.op = "importDone"
  /\ last.file.k = "garbage"
  /\ expenses # <<>>
  /\ \E f \in pending : f.k = "object"

\* the amounts the claim calls invalid: not a finite number, or <= 0
ClaimedInvalid(a) == a.t # "num" \/ a.n <= 0

\* C4: a submit whose amount parses to a non-finite number or to a number
\* <= 0 changes neither the record list nor the form nor editingId, in Add
\* and in Edit mode; a submit of "12.5" is accepted: in Add mode the list
\* grows by one record of amount 12.5, in either mode the form is reset.
InvalidSubmitChangesNothing ==
  [][(last'.op \in {"submitRejected", "submitAdd", "submitEdit"})
       => /\ ClaimedInvalid(parseFloat(ToStr(form.amount)))
               => UNCHANGED <<expenses, form, editingId>>
          /\ form.amount = Str(<<"1", "2", ".", "5">>)
               => /\ last'.op # "submitRejected"
                  /\ form' = DefaultForm /\ editingId' = JsNull
                  /\ \E i \in 1..Len(expenses') : expenses'[i].amount = Num(125)
                  /\ ~Truthy(editingId) => Len(expenses') = Len(expenses) + 1]_vars

\* C4: a submit of amount "0" was rejected in Edit mode.
InvalidSubmitSeen ==
  /\ last.op = "submitRejected"
  /\ Truthy(editingId)
  /\ form.amount = Str(<<"0">>)

\* the claim's second predicate, as the claim words it: the lowercase
\* concatenation of note and category contains the lowercase query
ClaimedQuery(e, f) ==
  f.q = <<>> \/ includes(toLowerCase(e.note.s \o e.category.s), toLowerCase(f.q))

\* the second predicate with the separator the page puts between the two
SpacedQuery(e, f) ==
  f.q = <<>>
  \/ includes(toLowerCase(e.note.s \o <<" ">> \o e.category.s), toLowerCase(f.q))

\* the other three predicates of the claim
ClaimedOthers(e, f) ==
  /\ f.category = <<>> \/ e.category.s = f.category
  /\ f.from = <<>> \/ StrLeq(f.from, e.date.s)
  /\ f.to = <<>> \/ StrLeq(e.date.s, f.to)

\* every outcome of the view holds exactly the records of the list that
\* satisfy P, each once
ViewIsExactly(P(_, _)) ==
  /\ filtered(expenses, filters) # {}
  /\ \A v \in filtered(expenses, filters) :
       /\ \A i \in 1..Len(v) : P(v[i], filters)
       /\ \A j \in 1..Len(expenses) :
            P(expenses[j], filters) => \E i \in 1..Len(v) : v[i] = expenses[j]
       /\ Len(v) = Cardinality({j \in 1..Len(expenses) : P(expenses[j], filters)})

\* C5, as claimed: the filtered view holds exactly the records that satisfy
\* the four predicates, the query being searched in the lowercase
\* concatenation of note and category.
ViewMatchesClaimed ==
  ViewIsExactly(LAMBDA e, f : ClaimedOthers(e, f) /\ ClaimedQuery(e, f))

\* C5, amended: the filtered view holds exactly the records that satisfy the
\* four predicates, the query being searched in the lowercase of note, one
\* space, category.
ViewMatchesSpaced ==
  ViewIsExactly(LAMBDA e, f : ClaimedOthers(e, f) /\ SpacedQuery(e, f))

\* C5: a query that spans the end of a note and the start of a category
\* keeps one record of the list and drops another.
ViewSeen ==
  /\ filters.q = <<"a", " ", "F">>
  /\ Len(FilterRows(expenses, filters)) >= 1
  /\ Len(FilterRows(expenses, filters)) < Len(expenses)

\* C6: importing the text that exporting the record list produces leaves
\* the store equal to that list.
ExportImportRoundTrip ==
  last.op = "export" => OnLoad(download, expenses, nextUuid).list = expenses

\* C7: a valid submit in Edit mode replaces exactly the record of id
\* editingId by the form's values, at its position; every other record and
\* the length are unchanged; the list is unchanged when no record has that
\* id; afterwards editingId is null and the form holds its defaults.
EditReplacesOne ==
  [][last'.op = "submitEdit"
       => LET payload == SubmitPayload(editingId, form, nextUuid)
          IN /\ Len(expenses') = Len(expenses)
             /\ HasId(expenses, editingId)
                  => \E i \in 1..Len(expenses) :
                       /\ expenses[i].id = editingId
                       /\ expenses'[i] = payload
                       /\ \A j \in 1..Len(expenses) :
                            j # i => expenses'[j] = expenses[j]
             /\ ~HasId(expenses, editingId) => expenses' = expenses
             /\ editingId' = JsNull
             /\ form' = DefaultForm]_vars

\* C8: when a read completes with a JSON array, the store is exactly the
\* normalised entries of that file, whatever the store held and whatever
\* ran while the read was pending; so of two reads the later one wins.
ImportReplacesStore ==
  (last.op = "importDone" /\ last.file.k = "array")
    => LET items == JSONparse(last.file).items
       IN expenses = cleaned(items, nextUuid - UuidsNeeded(items))

\* C8: a read has completed with an array while another array was still
\* being read, and the record that was being edited, which the file does
\* not hold, is gone from the store.
ImportReplaceSeen ==
  /\ last.op = "importDone"
  /\ last.file.k = "array"
  /\ \E f \in pending : f.k = "array"
  /\ Truthy(editingId)
  /\ ~HasId(expenses, editingId)
  /\ expenses # <<>>

\* C9: in Edit mode a record of id editingId is in the record list.
EditedRecordPresent ==
  editingId # JsNull => HasId(expenses, editingId)

\* C10: until the first user action, the value the mount effects have
\* written to the blob is the record list the blob held at start.
MountKeepsBlob ==
  (pc = "commit" \/ (pc = "ready" /\ last.op = "mountCommit"))
    => loadFromStorage(blob, <<>>) = queued

====
